---- MODULE Spec2Model ----
(***************************************************************************)
(* Model of the EEZYbotArm controller:                                     *)
(*   src/maestro.py                            MaestroController           *)
(*   src/app_prompt_multi_ai_voice_4_servo.py  prompt -> plan -> motion    *)
(*                                                                         *)
(* Python lists are modelled as sequences; At(list, i) is list[i] with     *)
(* Python's 0-based index.  A string produced by the translator is held    *)
(* as the list of its "|"-separated steps, each the list of its            *)
(* ","-separated tokens, each token the sequence of its characters, so     *)
(* that strip() and int() are computed character by character.             *)
(*                                                                         *)
(* Atomicity: CPython switches threads between bytecodes and at every      *)
(* blocking call (time.sleep, serial write, input).  Every access to the   *)
(* shared list current_position and every write to the serial port is an   *)
(* action of its own; thread-local computation is folded into the          *)
(* neighbouring action.  The slider widgets are only ever written          *)
(* (sliders[ch].set), never read back, and are left out.                   *)
(*                                                                         *)
(* A serial write either succeeds or raises; once one has raised the port  *)
(* is taken to be gone for good (the program never reopens it), so every   *)
(* later write raises too.  SpecRecover alone also has writes that raise   *)
(* and leave the port usable.                                              *)
(*                                                                         *)
(* Specifications: Spec (one producer: the text listener), SpecListeners   *)
(* (both listener threads), SpecConcurrent (both listener threads and the  *)
(* reset button), SpecReset (the reset button pressed between plans),      *)
(* SpecMove (one producer, well-formed plans between many positions),      *)
(* SpecRecover (one producer prompted again after a failed plan) and       *)
(* SpecEncode (set_target on its own).                                     *)
(***************************************************************************)
EXTENDS Integers, Sequences, FiniteSets, TLC

\* ------------------------------------------------------------ bounds
\* Longest plan (number of "|"-separated steps) the translator returns.
MaxPlanLen == 2
\* Number of prompts a listener thread accepts.
MaxPrompts == 1
\* Number of times the reset button is pressed.
MaxResets == 1

\* Number of further prompts the text listener accepts after a plan failed.
MaxRetries == 1
\* Largest target set_target is called with on its own.
MaxTargetArg == 20000

\* --------------------------------------------------- program constants
servo_channels == <<0, 1, 2, 3>>
MIN_PULSE == <<4000, 4000, 5000, 4000>>
MAX_PULSE == <<8000, 8000, 5000, 6000>>
NEUTRAL == <<6000, 6000, 5000, 5000>>
INTERPOLATION_STEPS == 20
\* The literal 2 of `if i == 2` / `if ch == 2` and the literal 5000 beside it.
LOCKED_CHANNEL == 2
LOCKED_PULSE == 5000

Threads == {"text", "voice"}

\* list[idx], 0-based as in Python
At(list, idx) == list[idx + 1]

\* list with list[idx] = val
Put(list, idx, val) == [list EXCEPT ![idx + 1] = val]

\* ------------------------------------------------------------ maestro.py
\* set_target with the bug "the two data bytes are sent in the other order"
set_targetSwapped(channel, target) ==
    <<132, channel, (target \div 128) % 128, target % 128>>

\* MaestroController.set_target: the 4 bytes handed to ser.write.
\* target & 0x7F is target mod 128 and target >> 7 is floor(target / 128),
\* for negative Python ints as well.
set_target(channel, target) ==
    <<132, channel, target % 128, (target \div 128) % 128>>

\* What the Maestro takes the target of a Set Target command to be.
MaestroDecode(command) == command[3] + 128 * command[4]

\* ------------------------------------------------ str.strip() and int()
Digits == <<"0", "1", "2", "3", "4", "5", "6", "7", "8", "9">>

IsDigit(ch) == \E d \in 1..10 : Digits[d] = ch

DigitValue(ch) == (CHOOSE d \in 1..10 : Digits[d] = ch) - 1

RECURSIVE LStrip(_)
LStrip(s) == IF s # <<>> /\ Head(s) = " " THEN LStrip(Tail(s)) ELSE s

RECURSIVE RStrip(_)
RStrip(s) ==
    IF s # <<>> /\ s[Len(s)] = " " THEN RStrip(SubSeq(s, 1, Len(s) - 1)) ELSE s

\* val.strip(); the blank is the only whitespace among the characters used
Strip(s) == RStrip(LStrip(s))

\* The digits of a literal, its sign removed.
Unsigned(s) == IF s # <<>> /\ Head(s) \in {"+", "-"} THEN Tail(s) ELSE s

\* Whether int(s) returns (TRUE) or raises ValueError (FALSE): an optional
\* sign and then at least one decimal digit (no token used here holds an
\* underscore, which int() also accepts between digits).
IsIntLiteral(s) ==
    /\ Unsigned(s) # <<>>
    /\ \A p \in 1..Len(Unsigned(s)) : IsDigit(Unsigned(s)[p])

RECURSIVE DecimalValue(_)
DecimalValue(ds) ==
    IF ds = <<>> THEN 0
    ELSE 10 * DecimalValue(SubSeq(ds, 1, Len(ds) - 1)) + DigitValue(ds[Len(ds)])

\* int(s) for a literal s
ParseInt(s) ==
    IF s # <<>> /\ Head(s) = "-" THEN 0 - DecimalValue(Unsigned(s))
    ELSE DecimalValue(Unsigned(s))

\* ---------------------------------------------------------- handle_prompt
\* line 152 raises ValueError: some token of the step is no integer literal
RaisesValueError(step) ==
    \E p \in 1..Len(step) : ~IsIntLiteral(Strip(step[p]))

\* line 152: values = [int(val.strip()) for val in step.strip().split(",")]
Values(step) == [p \in 1..Len(step) |-> ParseInt(Strip(step[p]))]

Min(a, b) == IF a < b THEN a ELSE b

Max(a, b) == IF a > b THEN a ELSE b

\* ClampPulse with the bug "the lower bound is not applied"
ClampPulseNoFloor(ch, pulse) == Min(At(MAX_PULSE, ch), pulse)

\* ClampPulse with the bug "min and max are swapped"
ClampPulseSwapped(ch, pulse) ==
    Min(At(MIN_PULSE, ch), Max(At(MAX_PULSE, ch), pulse))

\* line 162: max(MIN_PULSE[ch], min(MAX_PULSE[ch], pulse))
ClampPulse(ch, pulse) == Max(At(MIN_PULSE, ch), Min(At(MAX_PULSE, ch), pulse))

\* lines 157-163: the list `clamped` built from `values`
Clamped(values) ==
    [p \in 1..Len(values) |->
        IF p - 1 = LOCKED_CHANNEL THEN LOCKED_PULSE
        ELSE ClampPulse(p - 1, values[p])]

\* WrongLength with the bug "the length is not checked"
WrongLengthNever(values) == FALSE

\* line 153: len(values) != len(servo_channels)
WrongLength(values) == Len(values) # Len(servo_channels)

\* ------------------------------------------------------- move_to_position
\* IsLocked with the bug "the special case of servo 2 is missing"
IsLockedNever(ch) == FALSE

\* line 128: if i == 2
IsLocked(ch) == ch = LOCKED_CHANNEL

\* Frame with the bug "range(INTERPOLATION_STEPS)": s runs from 0, so the
\* last frame stops short of end
FrameFromZero(start, end, s) ==
    (start * INTERPOLATION_STEPS + (end - start) * (s - 1))
       \div INTERPOLATION_STEPS

\* int(x) for the rational x = num / den, den > 0: truncation toward zero.
IntTrunc(num, den) ==
    IF num >= 0 THEN num \div den ELSE 0 - ((0 - num) \div den)

\* line 136: int(start + (end - start) * (s / INTERPOLATION_STEPS)).
\* The float expression is evaluated here as the exact rational
\* (start * S + (end - start) * s) / S.  For every start and end in
\* 4000..8000 and s in 1..20 the IEEE-754 double result truncates to the
\* same integer as the exact one (whenever the exact value is an integer the
\* double sum is that integer; otherwise it is at least 1/20 away from one).
Frame(start, end, s) ==
    IntTrunc(start * INTERPOLATION_STEPS + (end - start) * s,
             INTERPOLATION_STEPS)

\* Frames with the bug "range(1, INTERPOLATION_STEPS)": the last frame is
\* missing
FramesShort(start, end) ==
    [s \in 1..(INTERPOLATION_STEPS - 1) |-> Frame(start, end, s)]

\* Frames with the bug "a channel already at its target gets one frame"
FramesCollapsed(start, end) ==
    IF start = end THEN <<end>>
    ELSE [s \in 1..INTERPOLATION_STEPS |-> Frame(start, end, s)]

\* lines 135-138: the list `steps`
Frames(start, end) ==
    [s \in 1..INTERPOLATION_STEPS |-> Frame(start, end, s)]

\* ------------------------------------------------ translator responses
\* Tokens the translator may put between commas.
T4000 == <<"4", "0", "0", "0">>
T5000 == <<"5", "0", "0", "0">>
T6000 == <<"6", "0", "0", "0">>
T8000 == <<"8", "0", "0", "0">>
T9000 == <<"9", "0", "0", "0">>
T7999 == <<"7", "9", "9", "9">>
T1234 == <<"1", "2", "3", "4">>
T5999 == <<"5", "9", "9", "9">>
TMinus100 == <<"-", "1", "0", "0">>
TSpaced4001 == <<" ", "4", "0", "0", "1", " ">>
TWord == <<"a", "b", "c">>

\* Steps: "8000,6000,5000,5000" and so on.
StepOpenClaw == <<T8000, T6000, T5000, T5000>>
StepForward == <<T6000, T6000, T5000, T6000>>
StepBack == <<T6000, T6000, T5000, T4000>>
StepOutOfRange == <<T9000, TMinus100, T5000, T5000>>
StepOdd == <<T7999, TSpaced4001, T1234, T5999>>
\* malformed: "8000,6000,5000" has three values; "6000,abc,,5000" has a
\* word and an empty token among its four
StepShort == <<T8000, T6000, T5000>>
StepWord == <<T6000, TWord, <<>>, T5000>>

StepSet ==
    {StepOpenClaw, StepForward, StepBack, StepOutOfRange, StepOdd,
     StepShort, StepWord}

\* Every plan of 1..MaxPlanLen steps (str.split never returns an empty list).
Responses == UNION {[1..n -> StepSet] : n \in 1..MaxPlanLen}

RECURSIVE Decimal(_)
\* The decimal digits of a natural number, as the translator writes it.
Decimal(n) ==
    IF n < 10 THEN <<Digits[n + 1]>>
    ELSE Append(Decimal(n \div 10), Digits[(n % 10) + 1])

\* Well-formed steps that take the arm between ends, middles and
\* neighbouring values of the channels' ranges: "v,12000-v,5000,v-2000".
MoveValues == {4000, 4001, 5990, 6000, 7999, 8000}

MoveStep(v) == <<Decimal(v), Decimal(12000 - v), T5000, Decimal(v - 2000)>>

MoveSteps == {MoveStep(v) : v \in MoveValues}

MoveResponses == UNION {[1..n -> MoveSteps] : n \in 1..MaxPlanLen}

\* Plans that fail halfway, fail at once, or can run to their end.
RecoverResponses ==
    {<<StepOpenClaw, StepWord>>, <<StepShort, StepWord>>, <<StepOutOfRange>>}

\* The plan each listener is answered with when both listeners and the
\* reset button are active.
ConcurrentResponses(t) ==
    IF t = "text" THEN {<<StepOpenClaw>>} ELSE {<<StepOutOfRange>>}

\* ------------------------------------------------------------------ state
VARIABLES
    current_position,  \* the global list current_position
    hw,                \* per channel, the target the Maestro was last sent
    ser_open,          \* whether the serial port still takes writes
    pc,                \* per thread: where it is in handle_prompt
    prompts,           \* per thread: prompts accepted so far
    plan,              \* per thread: handle_prompt's `steps`
    k,                 \* per thread: 1-based index in plan of `step`
    targets,           \* per thread: move_to_position's `targets`
    i,                 \* per thread: move_to_position's `i`
    start,             \* per thread: move_to_position's `start`
    frames,            \* per thread: frames of `steps` not yet written
    err,               \* per thread: what handle_prompt's except caught
    executed,          \* per thread: indices of the plan's steps whose
                       \*   move_to_position call returned
    sent,              \* per thread: the values written so far for channel
                       \*   i by the current move_to_position call (emptied
                       \*   when the call goes on to the next channel)
    nw,                \* per thread and channel: writes made for the plan
    resets,            \* GUI thread: presses of the reset button so far
    rpc,               \* GUI thread: where it is in reset_all_servos
    rch,               \* GUI thread: reset_all_servos' `ch`
    call               \* set_target driven on its own (SpecEncode): its
                       \*   arguments and the bytes it handed to ser.write

shared == <<current_position, hw, ser_open>>
locals == <<pc, prompts, plan, k, targets, i, start, frames, err>>
history == <<executed, sent, nw>>
gui == <<resets, rpc, rch>>
vars == <<shared, locals, history, gui, call>>

NumChannels == Len(servo_channels)

\* No call of set_target on its own.
NoCall == [channel |-> 0, target |-> 0, command |-> <<>>]

\* lines 26-31: current_position = NEUTRAL.copy(), each channel written once
InitArm ==
    /\ current_position = NEUTRAL
    /\ hw = [p \in 1..NumChannels |->
                MaestroDecode(set_target(p - 1, NEUTRAL[p]))]
    /\ ser_open = TRUE
    /\ pc = [t \in Threads |-> "idle"]
    /\ prompts = [t \in Threads |-> 0]
    /\ plan = [t \in Threads |-> <<>>]
    /\ k = [t \in Threads |-> 0]
    /\ targets = [t \in Threads |-> <<>>]
    /\ i = [t \in Threads |-> 0]
    /\ start = [t \in Threads |-> 0]
    /\ frames = [t \in Threads |-> <<>>]
    /\ err = [t \in Threads |-> "none"]
    /\ executed = [t \in Threads |-> <<>>]
    /\ sent = [t \in Threads |-> <<>>]
    /\ nw = [t \in Threads |-> [p \in 1..NumChannels |-> 0]]
    /\ resets = 0
    /\ rpc = "idle"
    /\ rch = 0

Init == InitArm /\ call = NoCall

\* ------------------------------------------------------ shared helpers
\* CurrentStep with the bug "the plan is walked from its last step"
CurrentStepReversed(t) == plan[t][Len(plan[t]) - k[t] + 1]

\* line 151: the `step` of the current turn of `for step in steps`
CurrentStep(t) == plan[t][k[t]]

\* StoredValue with the bug "the channel's pre-move value is stored back"
StoredValueStale(t) ==
    IF IsLocked(i[t]) THEN LOCKED_PULSE ELSE start[t]

\* lines 130 and 142: the value assigned to current_position[i]
StoredValue(t) ==
    IF IsLocked(i[t]) THEN LOCKED_PULSE ELSE At(targets[t], i[t])

\* Except with the bug "a failed write is caught next to the write and
\* move_to_position carries on"
ExceptResume(t, e) ==
    /\ pc' = [pc EXCEPT ![t] = IF e = "serial" THEN "store" ELSE "idle"]
    /\ err' = [err EXCEPT ![t] = e]

\* Except with the bug "the try block is missing": the exception leaves
\* handle_prompt and ends the listener thread
ExceptEscapes(t, e) ==
    /\ pc' = [pc EXCEPT ![t] = "dead"]
    /\ err' = [err EXCEPT ![t] = e]

\* handle_prompt's `except Exception as e` (lines 165-166): the error is
\* printed and handle_prompt returns to the listener loop.
Except(t, e) ==
    /\ pc' = [pc EXCEPT ![t] = "idle"]
    /\ err' = [err EXCEPT ![t] = e]

\* update_servo with the bug "the command goes to the next channel"
update_servoNextChannel(t, channel, value) ==
    /\ ser_open
    /\ hw' = Put(hw, (channel + 1) % NumChannels,
                 MaestroDecode(set_target((channel + 1) % NumChannels, value)))
    /\ sent' = [sent EXCEPT ![t] = Append(@, value)]
    /\ nw' = [nw EXCEPT ![t] = Put(@, (channel + 1) % NumChannels,
                                   At(@, (channel + 1) % NumChannels) + 1)]

\* update_servo(channel, value) called by thread t, the write succeeding
\* (lines 39-41 and maestro.py 8-15).
update_servo(t, channel, value) ==
    /\ ser_open
    /\ hw' = Put(hw, channel, MaestroDecode(set_target(channel, value)))
    /\ sent' = [sent EXCEPT ![t] = Append(@, value)]
    /\ nw' = [nw EXCEPT ![t] = Put(@, channel, At(@, channel) + 1)]

\* Whether thread t stands just before a call of update_servo.
AtWrite(t) ==
    \/ pc[t] = "move" /\ IsLocked(i[t])
    \/ pc[t] = "frame"

\* ------------------------------------------------------- listener threads
\* handle_prompt is entered (line 145): nothing of an earlier plan is kept.
EnterHandlePrompt(t) ==
    /\ pc' = [pc EXCEPT ![t] = "translate"]
    /\ prompts' = [prompts EXCEPT ![t] = @ + 1]
    /\ plan' = [plan EXCEPT ![t] = <<>>]
    /\ k' = [k EXCEPT ![t] = 0]
    /\ err' = [err EXCEPT ![t] = "none"]
    /\ executed' = [executed EXCEPT ![t] = <<>>]
    /\ sent' = [sent EXCEPT ![t] = <<>>]
    /\ nw' = [nw EXCEPT ![t] = [p \in 1..NumChannels |-> 0]]
    /\ targets' = [targets EXCEPT ![t] = <<>>]
    /\ i' = [i EXCEPT ![t] = 0]
    /\ start' = [start EXCEPT ![t] = 0]
    /\ frames' = [frames EXCEPT ![t] = <<>>]
    /\ UNCHANGED <<shared, gui>>
    /\ UNCHANGED call

\* listen_for_text (lines 171-174): a line is read; a blank one is ignored.
listen_for_text ==
    /\ pc["text"] = "idle"
    /\ prompts["text"] < MaxPrompts
    /\ \E user_input \in {<<>>, <<" ">>, <<"g", "o">>} :
          IF Strip(user_input) # <<>>
          THEN EnterHandlePrompt("text")
          ELSE UNCHANGED vars

\* listen_for_voice (lines 185-204): the recognizer times out, fails, or
\* returns a text; only a text that starts with the wake word is handled.
listen_for_voice ==
    /\ pc["voice"] = "idle"
    /\ prompts["voice"] < MaxPrompts
    /\ \E heard \in {"WaitTimeoutError", "UnknownValueError", "RequestError",
                     "no wake word", "wake word"} :
          IF heard = "wake word"
          THEN EnterHandlePrompt("voice")
          ELSE UNCHANGED vars

\* listen_for_text's loop (lines 171-174) after handle_prompt has returned
\* from a plan that failed: the next line that is not blank is handled.
listen_after_failure ==
    /\ pc["text"] = "idle"
    /\ err["text"] # "none"
    /\ prompts["text"] < MaxPrompts + MaxRetries
    /\ EnterHandlePrompt("text")

\* ---------------------------------------------------------- handle_prompt
\* line 148: the translator raises
TranslateFails(t) ==
    /\ pc[t] = "translate"
    /\ Except(t, "translator")
    /\ UNCHANGED <<shared, prompts, plan, k, targets, i, start, frames,
                   history, gui>>
    /\ UNCHANGED call

\* lines 148-150: the translator answers; steps = response.strip().split("|")
Translate(t, answers) ==
    /\ pc[t] = "translate"
    /\ \E response \in answers :
          /\ plan' = [plan EXCEPT ![t] = response]
          /\ k' = [k EXCEPT ![t] = 1]
          /\ pc' = [pc EXCEPT ![t] = "step"]
    /\ UNCHANGED <<shared, prompts, targets, i, start, frames, err,
                   history, gui>>
    /\ UNCHANGED call

\* lines 151-164, one turn of `for step in steps` up to the call of
\* move_to_position: parse, check the length, clamp.
ParseStep(t) ==
    /\ pc[t] = "step"
    /\ IF k[t] > Len(plan[t])
       THEN \* the loop is over: handle_prompt returns
            /\ pc' = [pc EXCEPT ![t] = "idle"]
            /\ UNCHANGED <<k, targets, i, err, sent>>
       ELSE IF RaisesValueError(CurrentStep(t))
       THEN \* int() raises inside the try block
            /\ Except(t, "ValueError")
            /\ UNCHANGED <<k, targets, i, sent>>
       ELSE IF WrongLength(Values(CurrentStep(t)))
       THEN \* "Invalid step", continue
            /\ k' = [k EXCEPT ![t] = @ + 1]
            /\ UNCHANGED <<pc, targets, i, err, sent>>
       ELSE \* move_to_position(clamped) is entered
            /\ targets' = [targets EXCEPT
                              ![t] = Clamped(Values(CurrentStep(t)))]
            /\ i' = [i EXCEPT ![t] = 0]
            /\ sent' = [sent EXCEPT ![t] = <<>>]
            /\ pc' = [pc EXCEPT ![t] = "move"]
            /\ UNCHANGED <<k, err>>
    /\ UNCHANGED <<shared, prompts, plan, start, frames, executed, nw, gui>>
    /\ UNCHANGED call

\* ------------------------------------------------------- move_to_position
\* lines 128-129: the locked channel is written directly
LockedWrite(t) ==
    /\ pc[t] = "move"
    /\ IsLocked(i[t])
    /\ update_servo(t, i[t], LOCKED_PULSE)
    /\ pc' = [pc EXCEPT ![t] = "store"]
    /\ UNCHANGED <<current_position, ser_open, prompts, plan, k, targets, i,
                   start, frames, err, executed, gui>>
    /\ UNCHANGED call

\* lines 133-138: start is read from current_position, the frames computed
ReadStart(t) ==
    /\ pc[t] = "move"
    /\ ~IsLocked(i[t])
    /\ start' = [start EXCEPT ![t] = At(current_position, i[t])]
    /\ frames' = [frames EXCEPT
                     ![t] = Frames(At(current_position, i[t]),
                                   At(targets[t], i[t]))]
    /\ pc' = [pc EXCEPT ![t] = "frame"]
    /\ UNCHANGED <<shared, prompts, plan, k, targets, i, err, history, gui>>
    /\ UNCHANGED call

\* lines 139-141: one frame is written, then the thread sleeps
WriteFrame(t) ==
    /\ pc[t] = "frame"
    /\ update_servo(t, i[t], Head(frames[t]))
    /\ frames' = [frames EXCEPT ![t] = Tail(@)]
    /\ pc' = [pc EXCEPT ![t] = IF Tail(frames[t]) = <<>> THEN "store"
                                 ELSE "frame"]
    /\ UNCHANGED <<current_position, ser_open, prompts, plan, k, targets, i,
                   start, err, executed, gui>>
    /\ UNCHANGED call

\* ser.write raises inside update_servo (the port is gone; nothing reopens
\* it): nothing in move_to_position catches it, handle_prompt's except does.
WriteFails(t) ==
    /\ AtWrite(t)
    /\ ser_open' = FALSE
    /\ Except(t, "serial")
    /\ UNCHANGED <<current_position, hw, prompts, plan, k, targets, i, start,
                   frames, history, gui>>
    /\ UNCHANGED call

\* ser.write raises once (a write timeout, say) and the port stays usable.
WriteFailsOnce(t) ==
    /\ AtWrite(t)
    /\ ser_open
    /\ Except(t, "serial")
    /\ UNCHANGED <<shared, prompts, plan, k, targets, i, start, frames,
                   history, gui>>
    /\ UNCHANGED call

\* line 130 or 142: current_position[i] is assigned; after the last channel
\* move_to_position returns and the plan's next step is taken up.
StoreEnd(t) ==
    /\ pc[t] = "store"
    /\ current_position' = Put(current_position, i[t], StoredValue(t))
    /\ IF i[t] + 1 < NumChannels
       THEN /\ i' = [i EXCEPT ![t] = @ + 1]
            /\ pc' = [pc EXCEPT ![t] = "move"]
            /\ UNCHANGED <<k, executed>>
       ELSE /\ executed' = [executed EXCEPT ![t] = Append(@, k[t])]
            /\ k' = [k EXCEPT ![t] = @ + 1]
            /\ pc' = [pc EXCEPT ![t] = "step"]
            /\ UNCHANGED i
    /\ sent' = [sent EXCEPT ![t] = <<>>]
    /\ UNCHANGED <<hw, ser_open, prompts, plan, targets, start, frames, err,
                   nw, gui>>
    /\ UNCHANGED call

\* ------------------------------------------------------- reset_all_servos
\* The "Reset to Neutral" button is pressed (line 66).
ResetClick ==
    /\ rpc = "idle"
    /\ resets < MaxResets
    /\ resets' = resets + 1
    /\ rpc' = "write"
    /\ rch' = 0
    /\ UNCHANGED <<shared, locals, history>>
    /\ UNCHANGED call

\* line 46: update_servo(ch, NEUTRAL[ch])
ResetWrite ==
    /\ rpc = "write"
    /\ ser_open
    /\ hw' = Put(hw, rch, MaestroDecode(set_target(rch, At(NEUTRAL, rch))))
    /\ rpc' = "store"
    /\ UNCHANGED <<current_position, ser_open, locals, history, resets, rch>>
    /\ UNCHANGED call

\* line 46 raises: the callback ends, Tk reports the exception
ResetWriteFails ==
    /\ rpc = "write"
    /\ ser_open' = FALSE
    /\ rpc' = "idle"
    /\ UNCHANGED <<current_position, hw, locals, history, resets, rch>>
    /\ UNCHANGED call

\* ResetStore with the bug "line 47 is missing"
ResetStoreForgotten ==
    /\ rpc = "store"
    /\ IF rch + 1 < NumChannels
       THEN rch' = rch + 1 /\ rpc' = "write"
       ELSE rch' = rch /\ rpc' = "idle"
    /\ UNCHANGED <<shared, locals, history, resets>>
    /\ UNCHANGED call

\* line 47: current_position[ch] = NEUTRAL[ch]
ResetStore ==
    /\ rpc = "store"
    /\ current_position' = Put(current_position, rch, At(NEUTRAL, rch))
    /\ IF rch + 1 < NumChannels
       THEN rch' = rch + 1 /\ rpc' = "write"
       ELSE rch' = rch /\ rpc' = "idle"
    /\ UNCHANGED <<hw, ser_open, locals, history, resets>>
    /\ UNCHANGED call

\* ---------------------------------------------------------- specifications
\* One producer: prompts arrive on the text listener only, the reset button
\* is not pressed.
Next ==
    \/ listen_for_text
    \/ TranslateFails("text")
    \/ Translate("text", Responses)
    \/ ParseStep("text")
    \/ LockedWrite("text")
    \/ ReadStart("text")
    \/ WriteFrame("text")
    \/ WriteFails("text")
    \/ StoreEnd("text")

Spec == Init /\ [][Next]_vars

\* Both listener threads (lines 206-208); the reset button is not pressed.
NextListeners ==
    \/ listen_for_text
    \/ listen_for_voice
    \/ \E t \in Threads : TranslateFails(t)
    \/ \E t \in Threads : Translate(t, ConcurrentResponses(t))
    \/ \E t \in Threads : ParseStep(t)
    \/ \E t \in Threads : LockedWrite(t)
    \/ \E t \in Threads : ReadStart(t)
    \/ \E t \in Threads : WriteFrame(t)
    \/ \E t \in Threads : WriteFails(t)
    \/ \E t \in Threads : StoreEnd(t)

SpecListeners == Init /\ [][NextListeners]_vars

\* Both listener threads and the GUI thread (lines 206-211), the serial
\* port staying up (Spec and SpecListeners cover the writes that fail).
NextConcurrent ==
    \/ listen_for_text
    \/ listen_for_voice
    \/ \E t \in Threads : TranslateFails(t)
    \/ \E t \in Threads : Translate(t, ConcurrentResponses(t))
    \/ \E t \in Threads : ParseStep(t)
    \/ \E t \in Threads : LockedWrite(t)
    \/ \E t \in Threads : ReadStart(t)
    \/ \E t \in Threads : WriteFrame(t)
    \/ \E t \in Threads : StoreEnd(t)
    \/ ResetClick
    \/ ResetWrite
    \/ ResetStore

SpecConcurrent == Init /\ [][NextConcurrent]_vars

\* Both listener threads and the reset button, the button being pressed only
\* while neither listener is inside handle_prompt and no prompt being taken
\* up while reset_all_servos runs: plans may race each other, none runs
\* concurrently with a reset.  Of the serial writes only those of
\* reset_all_servos may fail.
NextReset ==
    \/ rpc = "idle" /\ listen_for_text
    \/ rpc = "idle" /\ listen_for_voice
    \/ \E t \in Threads : TranslateFails(t)
    \/ \E t \in Threads : Translate(t, ConcurrentResponses(t))
    \/ \E t \in Threads : ParseStep(t)
    \/ \E t \in Threads : LockedWrite(t)
    \/ \E t \in Threads : ReadStart(t)
    \/ \E t \in Threads : WriteFrame(t)
    \/ \E t \in Threads : StoreEnd(t)
    \/ (\A t \in Threads : pc[t] = "idle") /\ ResetClick
    \/ ResetWrite
    \/ ResetWriteFails
    \/ ResetStore

SpecReset == Init /\ [][NextReset]_vars

\* One producer whose plans are all well-formed and whose writes all
\* succeed: move_to_position between many pairs of start and end.
NextMove ==
    \/ listen_for_text
    \/ Translate("text", MoveResponses)
    \/ ParseStep("text")
    \/ LockedWrite("text")
    \/ ReadStart("text")
    \/ WriteFrame("text")
    \/ StoreEnd("text")

SpecMove == Init /\ [][NextMove]_vars

\* One producer that is given further prompts after a plan has failed; a
\* failed write may leave the port dead or usable.
NextRecover ==
    \/ listen_for_text
    \/ listen_after_failure
    \/ TranslateFails("text")
    \/ Translate("text", RecoverResponses)
    \/ ParseStep("text")
    \/ LockedWrite("text")
    \/ ReadStart("text")
    \/ WriteFrame("text")
    \/ WriteFails("text")
    \/ WriteFailsOnce("text")
    \/ StoreEnd("text")

SpecRecover == Init /\ [][NextRecover]_vars

\* set_target on its own (maestro.py 8-15): called once with arguments
\* drawn from every channel number a byte can hold, paired with targets at
\* the edges of the 7-bit and 14-bit fields, and from the arm's channels
\* and the two extreme channel numbers, paired with every target up to
\* MaxTargetArg.
EncodeChannels == 0..255

EdgeChannels == {At(servo_channels, p - 1) : p \in 1..NumChannels} \cup {255}

EdgeTargets ==
    {0, 1, 127, 128, 129, 4000, 5000, 6000, 8000,
     128 * 128 - 1, 128 * 128, 128 * 128 + 1, MaxTargetArg}

EncodeInputs ==
    (EncodeChannels \X EdgeTargets) \cup (EdgeChannels \X (0..MaxTargetArg))

InitEncode ==
    /\ InitArm
    /\ \E input \in EncodeInputs :
          call = [channel |-> input[1], target |-> input[2], command |-> <<>>]

\* maestro.py 9-15: the command is built and handed to ser.write
SetTargetCall ==
    /\ call.command = <<>>
    /\ call' = [call EXCEPT !.command = set_target(call.channel, call.target)]
    /\ UNCHANGED <<shared, locals, history, gui>>

NextEncode == SetTargetCall

SpecEncode == InitEncode /\ [][NextEncode]_vars

\* ================================================================ claims
Channels == 0..(NumChannels - 1)

\* The one producer of Spec.
Producer == "text"

\* clamp(v, lo, hi) as the specification words it
Clamp(v, lo, hi) == IF v < lo THEN lo ELSE IF v > hi THEN hi ELSE v

\* A step of exactly N integers.
WellFormed(step) == ~RaisesValueError(step) /\ Len(step) = NumChannels

\* Whether thread t is inside move_to_position.
InMove(t) == pc[t] \in {"move", "frame", "store"}

\* The index in plan[t] of the step whose move_to_position call returned
\* last (0: none yet).
LastExecuted(t) ==
    IF executed[t] = <<>> THEN 0 ELSE executed[t][Len(executed[t])]

\* ---------------------------------------------------------------- C1
\* C1: with a single producer, when move_to_position has just returned for
\* a well-formed step with raw values v, current_position[c] is exactly
\* clamp(v[c], MIN_PULSE[c], MAX_PULSE[c]) for every channel c, and 5000 for
\* channel 2, whatever position the step started from.
C1_ExactTarget ==
    (pc[Producer] = "step" /\ k[Producer] > 1
        /\ LastExecuted(Producer) = k[Producer] - 1)
    => \A c \in Channels :
          At(current_position, c) =
             IF c = 2 THEN 5000
             ELSE Clamp(At(Values(plan[Producer][k[Producer] - 1]), c),
                        At(MIN_PULSE, c), At(MAX_PULSE, c))

\* C1 witness: the second step "7999, 4001 ,1234,5999" has just been
\* executed from [8000,4000,5000,5000], a start it is 1 or 999 units from,
\* so none of its frames but the last is exact.
C1_Witness ==
    /\ pc[Producer] = "step"
    /\ plan[Producer] = <<StepOutOfRange, StepOdd>>
    /\ executed[Producer] = <<1, 2>>
    /\ current_position = <<7999, 4001, 5000, 5999>>

\* ---------------------------------------------------------------- C2
RECURSIVE WellFormedIndices(_, _)
\* The indices j >= from of the well-formed steps of a plan, in plan order.
WellFormedIndices(steps, from) ==
    IF from > Len(steps) THEN <<>>
    ELSE IF WellFormed(steps[from])
         THEN <<from>> \o WellFormedIndices(steps, from + 1)
         ELSE WellFormedIndices(steps, from + 1)

\* C2: a malformed step (wrong number of tokens, or a token that is no
\* integer) is skipped and never aborts the plan: once handle_prompt has
\* returned from a plan that the translator delivered and during which no
\* write failed, the steps executed are exactly the plan's well-formed steps,
\* in plan order, those after a malformed step included.
C2_MalformedStepSkipped ==
    (pc[Producer] = "idle" /\ plan[Producer] # <<>>
        /\ err[Producer] \notin {"translator", "serial"})
    => executed[Producer] = WellFormedIndices(plan[Producer], 1)

\* ---------------------------------------------------------------- C3
\* C3: at most one motion plan executes at a time: the text listener and
\* the voice listener are never both inside move_to_position.
C3_OnePlanAtATime == ~(InMove("text") /\ InMove("voice"))

\* ---------------------------------------------------------------- C4
\* Nothing is running: both listeners are back in their loops and
\* reset_all_servos is not in progress.
Quiescent == pc["text"] = "idle" /\ pc["voice"] = "idle" /\ rpc = "idle"

\* C4: in every quiescent state, after any interleaving of plan executions
\* and resets, current_position[c] is the value last written to the
\* actuator for channel c.  Stated for the runs in which no write has failed
\* (ser_open), so that it is not the documented lack of rollback after a
\* failed write that decides it.
C4_PositionIsLastCommand ==
    (Quiescent /\ ser_open)
    => \A c \in Channels : At(current_position, c) = At(hw, c)

\* ---------------------------------------------------------------- C5
\* The 14-bit ceiling of a Set Target command (two 7-bit data bytes).
MaxTarget == 128 * 128 - 1

InBounds(c, v) == At(MIN_PULSE, c) <= v /\ v <= At(MAX_PULSE, c)

\* C5: in every reachable state, under any interleaving of plan executions
\* and reset, current_position[c], the value the actuator was last sent for
\* channel c and every frame a thread has written or is about to write for
\* its channel lie within [MIN_PULSE[c], MAX_PULSE[c]], hence at or below
\* 16383.
C5_WithinBounds ==
    /\ \A c \in Channels :
          /\ InBounds(c, At(current_position, c))
          /\ InBounds(c, At(hw, c))
          /\ At(hw, c) <= MaxTarget
    /\ \A t \in Threads :
          \A p \in 1..Len(sent[t]) : InBounds(i[t], sent[t][p])
    /\ \A t \in Threads :
          \A p \in 1..Len(frames[t]) : InBounds(i[t], frames[t][p])

\* C5 witness: the voice plan "9000,-100,5000,5000" is driving the base
\* below neutral while the text plan is writing frames too and a reset is
\* in progress.
C5_Witness ==
    /\ plan["voice"] = <<StepOutOfRange>>
    /\ pc["voice"] = "frame" /\ i["voice"] = 1 /\ Len(sent["voice"]) >= 10
    /\ pc["text"] = "frame"
    /\ rpc = "store"
    /\ At(hw, 1) < At(NEUTRAL, 1)

\* ---------------------------------------------------------------- C6
\* C6: for channel 2, whatever target the step asks for, one execution of
\* move_to_position makes exactly one actuator write for it, of value 5000,
\* generates no interpolation frames for it, and leaves
\* current_position[2] = 5000.  nw counts the writes of the whole plan, so
\* "one per execution" reads: as many writes as executions returned, plus
\* one once the execution under way has passed channel 2 (an execution that
\* a failed write cut short has made one write for channel 2 or none).
C6_LockedChannel ==
    LET t == Producer
        passed == IF InMove(t) /\ (i[t] > 2 \/ (i[t] = 2 /\ pc[t] = "store"))
                  THEN 1 ELSE 0
    IN /\ err[t] # "serial" => At(nw[t], 2) = Len(executed[t]) + passed
       /\ err[t] = "serial" =>
             At(nw[t], 2) \in {Len(executed[t]), Len(executed[t]) + 1}
       /\ (InMove(t) /\ i[t] = 2) =>
             /\ pc[t] # "frame"
             /\ frames[t] = <<>>
             /\ sent[t] = IF pc[t] = "store" THEN <<5000>> ELSE <<>>
       /\ At(nw[t], 2) > 0 => At(hw, 2) = 5000
       /\ (pc[t] = "step" /\ executed[t] # <<>>) =>
             At(current_position, 2) = 5000

\* C6 witness: move_to_position has returned for "7999, 4001 ,1234,5999",
\* which asks 1234 of channel 2, after exactly one write for channel 2.
C6_Witness ==
    /\ pc[Producer] = "step"
    /\ plan[Producer][1] = StepOdd
    /\ executed[Producer] = <<1>>
    /\ At(nw[Producer], 2) = 1
    /\ At(current_position, 2) = 5000

\* ---------------------------------------------------------------- C7
\* C7: for every step of exactly N integers the vector handed to
\* move_to_position has length N, holds 5000 for the locked channel and
\* max(min(input, MAX_PULSE[c]), MIN_PULSE[c]) for every other channel c, so
\* each element is within its channel's bounds and no error is raised;
\* [9000, -100, 5000, 5000] becomes [8000, 4000, 5000, 5000] before any
\* frame is written.  Checked where move_to_position is entered, with
\* nothing written yet for the step (targets is not assigned after that).
C7_ClampedVector ==
    LET t == Producer
        input == Values(plan[t][k[t]])
    IN (pc[t] = "move" /\ i[t] = 0) =>
          /\ sent[t] = <<>>
          /\ err[t] = "none"
          /\ Len(targets[t]) = NumChannels
          /\ \A c \in Channels :
                /\ InBounds(c, At(targets[t], c))
                /\ At(targets[t], c) =
                      IF c = 2 THEN 5000
                      ELSE Clamp(At(input, c), At(MIN_PULSE, c),
                                 At(MAX_PULSE, c))
          /\ input = <<9000, -100, 5000, 5000>>
                => targets[t] = <<8000, 4000, 5000, 5000>>

\* C7 witness: move_to_position is entered with [8000, 4000, 5000, 5000]
\* for the step "9000,-100,5000,5000", nothing written yet.
C7_Witness ==
    /\ pc[Producer] = "move" /\ i[Producer] = 0
    /\ plan[Producer][k[Producer]] = StepOutOfRange
    /\ targets[Producer] = <<8000, 4000, 5000, 5000>>
    /\ nw[Producer] = <<0, 0, 0, 0>>

\* ---------------------------------------------------------------- C8
\* The vector a well-formed step is to end at, as the specification words it.
EndOf(step) ==
    [p \in 1..NumChannels |->
        IF p - 1 = 2 THEN 5000
        ELSE Clamp(Values(step)[p], MIN_PULSE[p], MAX_PULSE[p])]

\* C8: within one plan execution the steps are applied strictly in plan
\* order; every actuator write and current_position update of a step is
\* made before the first write of the next step; each step starts its
\* interpolation from the position the previous step ended at.  In terms of
\* the state: the executed indices increase and lie below the current one;
\* while a plan runs, a channel other than 2 has had all S writes of every
\* executed step plus those of the step under way (all S for the channels
\* before i, the ones sent so far for channel i, none for those after);
\* during a step that follows an executed one, the channels not yet stored
\* hold the previous step's end, which is also the `start` read for
\* channel i, and the channels already stored hold this step's target.
C8_StepsInOrder ==
    LET t == Producer
        done == Len(executed[t])
        running == pc[t] \in {"step", "move", "frame", "store"}
    IN /\ \A p \in 1..done :
             /\ executed[t][p] < k[t] \/ pc[t] = "idle"
             /\ p > 1 => executed[t][p - 1] < executed[t][p]
       /\ running =>
             \A c \in Channels \ {2} :
                At(nw[t], c) =
                   INTERPOLATION_STEPS * done
                   + (IF ~InMove(t) \/ c > i[t] THEN 0
                      ELSE IF c < i[t] THEN INTERPOLATION_STEPS
                      ELSE Len(sent[t]))
       /\ (InMove(t) /\ done > 0) =>
             LET prev == EndOf(plan[t][LastExecuted(t)])
             IN /\ \A c \in Channels :
                      /\ c > i[t] => At(current_position, c) = At(prev, c)
                      /\ c < i[t] =>
                            At(current_position, c) = At(targets[t], c)
                /\ pc[t] \in {"frame", "store"} /\ i[t] # 2
                      => start[t] = At(prev, i[t])

\* C8 witness: the second step of "9000,-100,5000,5000 | 6000,6000,5000,4000"
\* is halfway through the base, which it started from the 4000 the first
\* step left.
C8_Witness ==
    /\ plan[Producer] = <<StepOutOfRange, StepBack>>
    /\ executed[Producer] = <<1>>
    /\ pc[Producer] = "frame" /\ i[Producer] = 1
    /\ start[Producer] = 4000
    /\ Len(sent[Producer]) = 10
    /\ nw[Producer] = <<40, 30, 1, 20>>

\* ---------------------------------------------------------------- C9
\* C9: when an actuator write fails while a plan executes, the plan is
\* aborted: from then on no write is made for it and current_position is
\* not touched again, and at the failure nothing is rolled back: the
\* channels the step had finished hold their new value.
C9_WriteFailureAborts ==
    [][LET t == Producer
       IN /\ (err[t] = "serial" /\ err'[t] = "serial") =>
                /\ hw' = hw
                /\ nw'[t] = nw[t]
                /\ current_position' = current_position
          /\ (err[t] # "serial" /\ err'[t] = "serial") =>
                /\ hw' = hw
                /\ current_position' = current_position
                /\ \A c \in Channels :
                      c < i[t] => At(current_position', c) = At(targets[t], c)
      ]_vars

\* C9 witness: the first step of a two-step plan failed in the middle of
\* the base; the claw, already finished, stays at 8000 and the second step,
\* well-formed, is never taken up.
C9_Witness ==
    /\ err[Producer] = "serial" /\ pc[Producer] = "idle"
    /\ Len(plan[Producer]) = 2 /\ k[Producer] = 1
    /\ WellFormed(plan[Producer][2])
    /\ i[Producer] = 1 /\ Len(sent[Producer]) \in 1..19
    /\ At(current_position, 0) = 8000
    /\ At(current_position, 1) = 6000 /\ At(hw, 1) # 6000

\* --------------------------------------------------------------- C10
\* The steps the translator may return that are not well-formed.
MalformedSteps == {step \in StepSet : ~WellFormed(step)}

\* The translator failed, or none of the steps it returned is well-formed.
Hopeless(t) ==
    \/ err[t] = "translator"
    \/ /\ plan[t] # <<>>
       /\ \A j \in 1..Len(plan[t]) : plan[t][j] \in MalformedSteps

\* C10: if the translator call fails or no step of its output parses, the
\* plan is abandoned with no actuator write and no change of
\* current_position: every step taken into or within such a plan leaves
\* both as they were, and the plan's write count at zero.
C10_NoPartialMotion ==
    [][LET t == Producer
       IN Hopeless(t)' =>
             /\ current_position' = current_position
             /\ hw' = hw
             /\ nw'[t] = <<0, 0, 0, 0>>
      ]_vars

\* C10 witness: "8000,6000,5000 | 6000,abc,,5000" has been gone
\* through: the first step was skipped, the second raised, nothing moved.
C10_Witness ==
    /\ plan[Producer] = <<StepShort, StepWord>>
    /\ pc[Producer] = "idle" /\ err[Producer] = "ValueError"
    /\ k[Producer] = 2
    /\ nw[Producer] = <<0, 0, 0, 0>>
    /\ current_position = NEUTRAL /\ hw = NEUTRAL

\* --------------------------------------------------------------- C11
\* C11: when reset_all_servos completes with no plan execution running
\* beside it, current_position[c] = NEUTRAL[c] and the value last written
\* to the actuator for c is NEUTRAL[c], for every channel c, whatever state
\* the button was pressed in.  While it runs, the channels it has passed
\* already hold their neutral value.
C11_ResetToNeutral ==
    [][/\ (rpc = "store" /\ rpc' = "idle") =>
             /\ current_position' = NEUTRAL
             /\ hw' = NEUTRAL
       /\ rpc' = "write" =>
             \A c \in Channels :
                c < rch' => /\ At(current_position', c) = At(NEUTRAL, c)
                            /\ At(hw', c) = At(NEUTRAL, c)
      ]_vars

\* C11 witness: both plans have run, racing each other, and moved the claw
\* and the base; the reset pressed afterwards has completed and every
\* channel is back at neutral.
C11_Witness ==
    /\ resets = 1 /\ rpc = "idle" /\ rch = 3
    /\ executed["text"] = <<1>> /\ executed["voice"] = <<1>>
    /\ pc["text"] = "idle" /\ pc["voice"] = "idle"
    /\ current_position = NEUTRAL /\ hw = NEUTRAL

\* --------------------------------------------------------------- C12
RECURSIVE BitAnd(_, _)
\* a & b for naturals a and b
BitAnd(a, b) ==
    IF a = 0 \/ b = 0 THEN 0
    ELSE (a % 2) * (b % 2) + 2 * BitAnd(a \div 2, b \div 2)

RECURSIVE ShiftRight(_, _)
\* a >> n for a natural a
ShiftRight(a, n) == IF n = 0 THEN a ELSE ShiftRight(a \div 2, n - 1)

\* C12: for every channel in 0..255 and every target in 0..16383 set_target
\* emits exactly the 4 bytes [0x84, channel, target & 0x7F,
\* (target >> 7) & 0x7F], each of them a byte, and the target is byte2 +
\* 128 * byte3; for a target above 16383 the same bytes are emitted and
\* decode to target mod 16384, the bits above bit 13 being lost.
C12_WireFormat ==
    call.command # <<>> =>
       LET decoded == call.command[3] + 128 * call.command[4]
       IN /\ call.command =
                <<132, call.channel, BitAnd(call.target, 127),
                  BitAnd(ShiftRight(call.target, 7), 127)>>
          /\ \A p \in 1..4 : call.command[p] \in 0..255
          /\ call.target <= 128 * 128 - 1 => decoded = call.target
          /\ call.target > 128 * 128 - 1 =>
                /\ decoded = call.target % (128 * 128)
                /\ decoded # call.target

\* C12 witness: set_target(255, 16385) has emitted [0x84, 255, 1, 0], which
\* decodes to 1.
C12_Witness ==
    /\ call.channel = 255 /\ call.target = 128 * 128 + 1
    /\ call.command = <<132, 255, 1, 0>>

\* --------------------------------------------------------------- C13
\* C13: during move_to_position current_position is updated at each frame:
\* once a frame value v of a channel c other than 2 has been written to the
\* actuator, and until the next frame is written, current_position[c] = v,
\* so that whoever reads current_position meanwhile sees the channel's
\* progress and not its pre-move value.
C13_StoreFollowsFrames ==
    \A t \in Threads :
       (pc[t] \in {"frame", "store"} /\ ~IsLocked(i[t]) /\ sent[t] # <<>>)
       => At(current_position, i[t]) = sent[t][Len(sent[t])]

\* --------------------------------------------------------------- C14
\* C14: the hardware write precedes the store update.  At start-up
\* current_position[c] is the value the actuator has been sent, and under
\* any interleaving of plan executions and reset every later assignment to
\* current_position[c] stores a value that the assigning thread has already
\* written to the actuator for channel c: a listener the last value it sent
\* for the channel it is on, the reset the neutral value it has just sent.
C14_WriteBeforeStore ==
    /\ \A c \in Channels : At(current_position, c) = At(hw, c)
    /\ [][\A c \in Channels :
             At(current_position', c) # At(current_position, c) =>
                \/ \E t \in Threads :
                      /\ pc[t] = "store" /\ i[t] = c
                      /\ sent[t] # <<>>
                      /\ sent[t][Len(sent[t])] = At(current_position', c)
                \/ /\ rpc = "store" /\ rch = c
                   /\ At(current_position', c) = At(NEUTRAL, c)
         ]_vars

\* C14 witness: the voice plan has stored 4000 for the base, a value it had
\* written, although the actuator has since been sent another value for
\* the base by the text plan or the reset.
C14_Witness ==
    /\ pc["voice"] = "move" /\ i["voice"] = 2
    /\ At(current_position, 1) = 4000
    /\ At(hw, 1) # 4000

\* --------------------------------------------------------------- C15
\* |a|
Abs(a) == IF a < 0 THEN 0 - a ELSE a

\* Whether v is start + round(d * s / S) for some rounding to the nearest
\* integer (a tie may go either way): v - start is within 1/2 of d * s / S.
IsNearest(v, from, d, s) ==
    2 * Abs(INTERPOLATION_STEPS * (v - from) - d * s) <= INTERPOLATION_STEPS

\* C15: for every channel other than 2 and every s in 1..S, the s-th value
\* written to the actuator during a move from start to end is
\* start + round((end - start) * s / S), rounded to the nearest integer.
C15_RoundToNearest ==
    \A t \in Threads :
       (pc[t] \in {"frame", "store"} /\ ~IsLocked(i[t])) =>
          \A s \in 1..Len(sent[t]) :
             IsNearest(sent[t][s], start[t],
                       At(targets[t], i[t]) - start[t], s)

\* --------------------------------------------------------------- C16
\* C16: for every channel other than 2 and every start and end within
\* bounds, the frames written during one move (those written so far
\* followed by those still to be written) are exactly S values,
\* non-decreasing when start < end and non-increasing when start > end, the
\* last of them end; once the channel is done all S have been written; for
\* the claw moving from 6000 to 8000 they are strictly increasing.
C16_MonotoneFrames ==
    LET t == Producer
        seq == sent[t] \o frames[t]
        end == At(targets[t], i[t])
    IN (pc[t] \in {"frame", "store"} /\ ~IsLocked(i[t])) =>
          /\ Len(seq) = INTERPOLATION_STEPS
          /\ pc[t] = "store" => Len(sent[t]) = INTERPOLATION_STEPS
          /\ seq[Len(seq)] = end
          /\ start[t] < end =>
                \A s \in 1..(Len(seq) - 1) : seq[s] <= seq[s + 1]
          /\ start[t] > end =>
                \A s \in 1..(Len(seq) - 1) : seq[s] >= seq[s + 1]
          /\ (i[t] = 0 /\ start[t] = 6000 /\ end = 8000) =>
                /\ start[t] < seq[1]
                /\ \A s \in 1..(Len(seq) - 1) : seq[s] < seq[s + 1]

\* C16 witness: the base has been moved down from 7999 to 4000 and all
\* twenty frames are written, after the claw was moved up from 4001.
C16_Witness ==
    /\ pc[Producer] = "store" /\ i[Producer] = 1
    /\ start[Producer] = 7999
    /\ targets[Producer] = <<8000, 4000, 5000, 6000>>
    /\ Len(sent[Producer]) = 20
    /\ sent[Producer][1] < 7999 /\ sent[Producer][20] = 4000

\* --------------------------------------------------------------- C17
\* C17: when a single producer has gone through a plan of n well-formed
\* steps without failure, each channel other than 2 has received exactly
\* n * S actuator writes and channel 2 exactly n, also for a step whose
\* target is the value the channel already has; for the plan
\* "6000,6000,5000,6000 | 6000,6000,5000,4000" run from neutral, reach is
\* 6000 after step 1 and 4000 after step 2, having had 2 * S frames.
C17_WritesPerPlan ==
    LET t == Producer
        n == Len(plan[t])
        example == plan[t] = <<StepForward, StepBack>> /\ prompts[t] = 1
    IN /\ (pc[t] = "idle" /\ err[t] = "none" /\ n > 0
              /\ \A j \in 1..n : plan[t][j] \notin MalformedSteps)
          => /\ Len(executed[t]) = n
             /\ \A c \in Channels :
                   At(nw[t], c) =
                      IF c = 2 THEN n ELSE n * INTERPOLATION_STEPS
       /\ (example /\ pc[t] = "step" /\ executed[t] = <<1>>)
          => /\ At(current_position, 3) = 6000
             /\ At(nw[t], 3) = INTERPOLATION_STEPS
       /\ (example /\ pc[t] = "idle" /\ err[t] = "none")
          => /\ At(current_position, 3) = 4000
             /\ At(nw[t], 3) = 2 * INTERPOLATION_STEPS

\* C17 witness: "6000,6000,5000,6000 | 6000,6000,5000,4000" has been run
\* from neutral; the claw and the base, at 6000 throughout, have had their
\* 2 * S writes like the reach.
C17_Witness ==
    /\ plan[Producer] = <<StepForward, StepBack>>
    /\ prompts[Producer] = 1
    /\ pc[Producer] = "idle" /\ err[Producer] = "none"
    /\ nw[Producer] = <<40, 40, 2, 40>>
    /\ current_position = <<6000, 6000, 5000, 4000>>

\* --------------------------------------------------------------- C18
\* The writes one call of move_to_position makes for channel c.
WritesPerCall(c) == IF c = 2 THEN 1 ELSE INTERPOLATION_STEPS

\* The writes the call of move_to_position under way has made for channel c.
WritesInCall(t, c) == At(nw[t], c) - Len(executed[t]) * WritesPerCall(c)

\* C18: within one call of move_to_position the channels are processed one
\* after the other in index order.  Every actuator write of the call is for
\* the channel i the call is on; by then every channel below i has had all
\* its writes of the call and no channel above i has had any; and the value
\* written is determined by the position the channel started from and its
\* target: 5000 for channel 2, otherwise the next frame from
\* current_position[i] to targets[i].
C18_ChannelsInOrder ==
    [][LET t == Producer
           c == i[t]
       IN (InMove(t) /\ nw'[t] # nw[t]) =>
             /\ nw'[t] = Put(nw[t], c, At(nw[t], c) + 1)
             /\ \A d \in Channels :
                   /\ d < c => WritesInCall(t, d) = WritesPerCall(d)
                   /\ d > c => WritesInCall(t, d) = 0
             /\ WritesInCall(t, c) < WritesPerCall(c)
             /\ hw' = Put(hw, c,
                          IF c = 2 THEN 5000
                          ELSE Frame(At(current_position, c),
                                     At(targets[t], c),
                                     WritesInCall(t, c) + 1))
      ]_vars

\* C18 witness: the second call of a plan is on its last channel, the
\* reach; claw, base and channel 2 have had all their writes for both
\* calls, the reach those of the first call and five of the second.
C18_Witness ==
    /\ executed[Producer] = <<1>>
    /\ pc[Producer] = "frame" /\ i[Producer] = 3
    /\ nw[Producer] = <<40, 40, 2, 25>>
    /\ At(hw, 3) # At(current_position, 3)

\* --------------------------------------------------------------- C19
\* C19: all of the translator's output is validated before any hardware
\* effect: no actuator write is made for a plan until every step of the
\* plan has been parsed and validated.  k is the step handle_prompt has got
\* to; the steps after it have not been looked at yet, so a plan that has
\* had a write must be at its last step or past it.
C19_ValidateBeforeWrite ==
    \A t \in Threads :
       nw[t] # <<0, 0, 0, 0>> => k[t] >= Len(plan[t])

\* --------------------------------------------------------------- C20
\* C20: no failure inside a plan escapes handle_prompt.  Whether the
\* translator fails, a token fails to parse or an actuator write fails,
\* handle_prompt returns to the listener loop, which can take the next
\* prompt; and the plan of that prompt starts from the current_position the
\* failed plan left behind: nothing touches current_position from the
\* failure up to the moves of the later plan, whose every channel starts at
\* the value current_position then holds.
C20_FailureContained ==
    [][LET t == Producer
       IN /\ err'[t] \in {"translator", "ValueError", "serial"} =>
                /\ pc'[t] = "idle"
                /\ current_position' = current_position
          /\ (err[t] # "none" /\ pc[t] = "idle"
                 /\ prompts[t] < MaxPrompts + MaxRetries)
                => ENABLED listen_after_failure
          /\ pc'[t] \in {"translate", "step"} /\ pc[t] # "store"
                => current_position' = current_position
          /\ (pc[t] = "move" /\ pc'[t] = "frame")
                => start'[t] = At(current_position, i[t])
      ]_vars

\* C20 witness: the plan of a prompt taken after a failed plan is being
\* executed and its writes succeed; its claw started from the 8000 that
\* the failed plan had left behind.
C20_Witness ==
    /\ prompts[Producer] > MaxPrompts
    /\ plan[Producer] = <<StepOutOfRange>>
    /\ pc[Producer] = "frame" /\ i[Producer] = 1
    /\ At(current_position, 0) = 8000
    /\ At(nw[Producer], 0) = INTERPOLATION_STEPS
    /\ Len(sent[Producer]) = 10
    /\ \E s \in 1..10 : sent[Producer][s] < 6000

====
